---------------------------- MODULE Spec2Model ----------------------------
(***************************************************************************)
(* Model of PeerConnectionController, the negotiation controller, as its    *)
(* owner drives it.                                                        *)
(*                                                                         *)
(* The controller is event-loop driven.  Each action below is one task of  *)
(* the event loop: a public method called by the owner, or the settlement  *)
(* of a platform promise together with the chain of promise callbacks      *)
(* (microtasks) that the settlement triggers.                              *)
(*                                                                         *)
(* JavaScript strings are sequences.  An ICE candidate descriptor is a     *)
(* sequence of characters.  An SDP text is a sequence of atoms: an atom is *)
(* a line head ("a=fmtp:111"), one ';'-separated parameter of a line, or   *)
(* the line terminator CRLF.                                               *)
(***************************************************************************)
EXTENDS Integers, Sequences, FiniteSets, TLC

VARIABLES
    config,          \* this.config: the flags ForceTURN, UseMic, ForceMonoAudio
    location,        \* window.location: hostname and protocol of the page
    peerConnection,  \* this.peerConnection: the handle's state, or NULL
    attempts,        \* the createOffer / receiveOffer calls and where each one is
    nAttempts,       \* how many createOffer / receiveOffer calls were issued
    closeCalls,      \* [api |-> calls of close(), handle |-> calls of RTCPeerConnection.close()]
    iceCalls,        \* handleOnIce calls so far: [candidate, forceTURN, added]
    mungeLog,        \* mungeSDP invocations so far: [sdp, useMic, forceMono, out]
    thrown,          \* errors thrown synchronously to the caller of a public method
    toggles,         \* how many times the owner changed a flag
    answerCalls,     \* receiveAnswer calls so far and where each one is
    statsCalls,      \* generateStats calls so far and where each one is
    aggregatedStats, \* this.aggregatedStats: the aggregator's state
    videoStats,      \* onVideoStats events so far, as the delegate handled them
    sendToServer,    \* the delegate's flag "sendStatsToServer" of the shared Config
    handlerCalls,    \* handle events so far, as the installed handlers handled them
    builtUrl         \* the last call of the delegate's buildSignallingServerUrl

\* the variables of receiveAnswer, generateStats, the delegate and the handle's
\* event handlers
sessionVars == <<answerCalls, statsCalls, aggregatedStats, videoStats,
                 sendToServer, handlerCalls>>

vars == <<config, location, peerConnection, attempts, nAttempts, closeCalls,
          iceCalls, mungeLog, thrown, toggles, answerCalls, statsCalls,
          aggregatedStats, videoStats, sendToServer, handlerCalls, builtUrl>>

-----------------------------------------------------------------------------
(* Bounds *)

MaxCalls == 3      \* calls of public methods, flag changes by the owner, handle events
MaxAttempts == 2   \* createOffer / receiveOffer calls among them
MaxIce == 2        \* handleOnIce calls among them
MaxClose == 2      \* close() calls among them
MaxToggles == 1    \* flag changes among them
MaxAnswers == 1    \* receiveAnswer calls among them
MaxStats == 2      \* generateStats calls among them
MaxEvents == 1     \* events of the handle among them
MaxUrlLen == 4     \* characters of the configured signalling server URL

\* this.peerConnection after close()
NULL == [null |-> TRUE]

-----------------------------------------------------------------------------
(* JavaScript string operations, on sequences *)

\* s.slice(i, i + Len(pat)) === pat, with i a 1-based position
MatchesAt(s, pat, i) ==
    /\ i + Len(pat) - 1 <= Len(s)
    /\ \A k \in 1..Len(pat) : s[i + k - 1] = pat[k]

\* String.prototype.indexOf: the 0-based position of the first occurrence, or -1
IndexOf(s, pat) ==
    LET hits == {i \in 1..(Len(s) + 1) : MatchesAt(s, pat, i)}
    IN  IF hits = {} THEN -1
        ELSE (CHOOSE i \in hits : \A j \in hits : i <= j) - 1

Contains(s, pat) == IndexOf(s, pat) >= 0

\* String.prototype.replace with a string pattern: the first occurrence only
ReplaceFirst(s, pat, rep) ==
    LET i == IndexOf(s, pat)
    IN  IF i < 0 THEN s
        ELSE SubSeq(s, 1, i) \o rep \o SubSeq(s, i + Len(pat) + 1, Len(s))

-----------------------------------------------------------------------------
(* SDP text *)

CRLF == "\\r\\n"

FmtpHeads == {"a=fmtp:96", "a=fmtp:111"}
LevelAsymmetry == {"level-asymmetry-allowed=1"}

UseInbandFec == <<"useinbandfec=1">>
GoogleBitrates == <<"x-google-start-bitrate=10000", "x-google-max-bitrate=100000">>

\* s.replace(/(a=fmtp:\d+ .*level-asymmetry-allowed=.*)\r\n/gm, "$1;x-google-...\r\n"):
\* every CRLF-terminated line in which an fmtp head is followed by a
\* level-asymmetry-allowed parameter gets the two bitrates appended.
\* st is how much of the pattern the current line has matched so far.
RECURSIVE ReplaceFmtp(_, _, _)
ReplaceFmtp(s, i, st) ==
    IF i > Len(s) THEN <<>>
    ELSE IF s[i] = CRLF
         THEN (IF st = "level" THEN GoogleBitrates ELSE <<>>)
              \o <<CRLF>> \o ReplaceFmtp(s, i + 1, "none")
    ELSE LET st2 == IF st = "none" /\ s[i] \in FmtpHeads THEN "fmtp"
                    ELSE IF st = "fmtp" /\ s[i] \in LevelAsymmetry THEN "level"
                    ELSE st
         IN  <<s[i]>> \o ReplaceFmtp(s, i + 1, st2)

\* The audio parameter block built at lines 141-155
AudioSDP(useMic, forceMono) ==
    <<"maxaveragebitrate=510000">>
    \o (IF useMic THEN <<"sprop-maxcapturerate=48000">> ELSE <<>>)
    \o (IF forceMono THEN <<"sprop-stereo=0", "stereo=0">>
                     ELSE <<"sprop-stereo=1", "stereo=1">>)
    \o UseInbandFec

\* mungeSDP as it would be if the audio block were kept in a field that grows
\* with every invocation
mungeSDPAccumulating(sdp, useMic, forceMono) ==
    LET audioSDP == AudioSDP(useMic, forceMono)
    IN  ReplaceFirst(sdp, UseInbandFec,
            IF Len(mungeLog) > 0 THEN audioSDP \o audioSDP ELSE audioSDP)

\* mungeSDP(sdp, useMic), with this.config's ForceMonoAudio as forceMono.
\* String.prototype.replace returns a new string and leaves its receiver as it
\* is; the code drops each of the three results and returns mungedSDP, which
\* still is the string it was given.
mungeSDP(sdp, useMic, forceMono) ==
    LET mungedSDP == sdp
        dropped1 == ReplaceFmtp(mungedSDP, 1, "none")
        dropped2 == ReplaceFirst(mungedSDP, UseInbandFec,
                        <<"useinbandfec=1", "stereo=1", "sprop-maxcapturerate=48000">>)
        audioSDP == AudioSDP(useMic, forceMono)
        dropped3 == ReplaceFirst(mungedSDP, UseInbandFec, audioSDP)
    IN  mungedSDP

-----------------------------------------------------------------------------
(* Inputs *)

\* SDP texts the handle can produce in createOffer / createAnswer, and the
\* remote side can send
SampleSDPs ==
    { <<"m=video", CRLF,
        "a=fmtp:96", "level-asymmetry-allowed=1", "packetization-mode=1", CRLF,
        "m=audio", CRLF,
        "a=fmtp:111", "minptime=10", "useinbandfec=1", CRLF>>,
      <<"m=video", CRLF,
        "a=fmtp:96", "packetization-mode=1", "level-asymmetry-allowed=1">> }

\* The media lines of a remote offer
RemoteOffers ==
    { [type |-> "offer", sdp |-> s, kinds |-> k] :
        s \in {<<"m=video", CRLF, "m=audio", CRLF>>},
        k \in {<<"video", "audio">>, <<>>} }

Relay == <<"r", "e", "l", "a", "y">>

\* iceCandidate.candidate of the candidates the signalling server can deliver
SampleCandidates ==
    { <<"t", "y", "p", " ", "h", "o", "s", "t">>,
      <<"t", "y", "p", " ", "r", "e", "l", "a", "y", " ", "r">>,
      Relay,
      <<"r", "e", "l", "a">> }

Hostnames == {"localhost", "127.0.0.1", "example.com"}
Protocols == {"http:", "https:"}
FlagNames == {"ForceTURN", "UseMic", "ForceMonoAudio"}

-----------------------------------------------------------------------------
(* The handle: RTCPeerConnection *)

NoDescription == [type |-> "none", sdp |-> <<>>]

\* new RTCPeerConnection(options)
NewPeerConnection(options) ==
    [ id |-> 1,
      iceTransportPolicy |-> options.iceTransportPolicy,
      transceivers |-> <<>>,
      localDescription |-> NoDescription,
      remoteDescription |-> NoDescription,
      iceCandidates |-> <<>> ]

\* RTCPeerConnection.addTransceiver: always a new transceiver, not yet
\* associated with a media line (mid)
addTransceiver(h, kind, direction, track) ==
    [h EXCEPT !.transceivers =
        Append(@, [kind |-> kind, direction |-> direction, track |-> track, mid |-> FALSE])]

\* transceiver.sender.replaceTrack(track); transceiver.direction = "sendrecv"
\* for every transceiver whose receiver track is an audio track
BindAudioTrack(h) ==
    [h EXCEPT !.transceivers =
        [i \in 1..Len(@) |->
            IF @[i].kind = "audio"
            THEN [@[i] EXCEPT !.track = TRUE, !.direction = "sendrecv"]
            ELSE @[i]]]

\* The media lines of a remote offer, applied: a media line of the offer takes
\* the transceiver already associated with it, else a transceiver of its kind
\* that addTransceiver made and no media line has taken, else a new
\* receive-only transceiver.
RECURSIVE ApplyRemoteOffer(_, _)
ApplyRemoteOffer(tcs, kinds) ==
    IF kinds = <<>> THEN tcs
    ELSE LET k == Head(kinds)
             assoc == {i \in 1..Len(tcs) : tcs[i].kind = k /\ tcs[i].mid}
             free == {i \in 1..Len(tcs) : tcs[i].kind = k /\ ~tcs[i].mid}
             next ==
                IF assoc # {} THEN tcs
                ELSE IF free # {}
                     THEN LET j == CHOOSE i \in free : \A i2 \in free : i <= i2
                          IN  [tcs EXCEPT ![j].mid = TRUE]
                     ELSE Append(tcs, [kind |-> k, direction |-> "recvonly",
                                       track |-> FALSE, mid |-> TRUE])
         IN  ApplyRemoteOffer(next, Tail(kinds))

-----------------------------------------------------------------------------
(* The controller *)

Attempts == 1..MaxAttempts

NoAttempt ==
    [ op |-> "none",             \* "createOffer" or "receiveOffer"
      pc |-> "idle",             \* the promise the call is waiting for
      startCfg |-> [f \in FlagNames |-> FALSE],  \* the flags when the call was made
      micFlag |-> "unread",      \* config.isFlagEnabled(Flags.UseMic) as read
      monoFlag |-> "unread",     \* config.isFlagEnabled(Flags.ForceMonoAudio) as mungeSDP read it
      useMic |-> FALSE,          \* the local useMic
      hasTransceivers |-> FALSE, \* the local hasTransceivers
      remote |-> NoDescription,  \* the Offer argument
      created |-> <<>>,          \* the SDP the handle created
      desc |-> NoDescription,    \* the description given to setLocalDescription
      sent |-> NoDescription,    \* the payload of onSendWebRTCOffer / Answer
      committed |-> NoDescription,  \* the handle's local description once this attempt's commit is fulfilled
      atSetup |-> <<>>,          \* getTransceivers() when setup started
      atCreate |-> <<>>,         \* getTransceivers() when createOffer / createAnswer was invoked
      remoteAtCreate |-> NoDescription,  \* the remote description at that moment
      hist |-> <<>> ]            \* handle calls, settlements and outbound events, in order

\* No createOffer / receiveOffer call is still under way.  The owner starts a
\* negotiation only then: the controller has no lock of its own.
NoneInFlight == \A a \in Attempts : attempts[a].pc \in {"idle", "done"}

\* What the owner has done so far
Calls == nAttempts + Len(iceCalls) + closeCalls.api + toggles
             + Len(answerCalls) + Len(statsCalls) + Len(handlerCalls)

\* constructor(options, config)
\* buildSignallingServerUrl has not been called
NoBuiltUrl == [called |-> FALSE, setting |-> <<>>, url |-> <<>>]

\* new AggregatedStats(): no report reduced yet, every metric at its neutral
\* value
NewAggregatedStats == [reports |-> 0, entries |-> 0, bitrate |-> 0]

Init ==
    /\ config \in [FlagNames -> BOOLEAN]
    /\ location \in [hostname : Hostnames, protocol : Protocols]
    /\ peerConnection =
          NewPeerConnection(
              [iceTransportPolicy |-> IF config["ForceTURN"] THEN "relay" ELSE "all"])
    /\ attempts = [a \in Attempts |-> NoAttempt]
    /\ nAttempts = 0
    /\ closeCalls = [api |-> 0, handle |-> 0]
    /\ iceCalls = <<>>
    /\ mungeLog = <<>>
    /\ thrown = [close |-> 0, handleOnIce |-> 0]
    /\ toggles = 0
    /\ answerCalls = <<>>
    /\ statsCalls = <<>>
    /\ aggregatedStats = NewAggregatedStats
    /\ videoStats = <<>>
    /\ sendToServer = TRUE
    /\ handlerCalls = <<>>
    /\ builtUrl = NoBuiltUrl

\* The microphone decision of createOffer (lines 48-55) and receiveOffer
\* (lines 76-83)
EffectiveUseMic(cfg, loc) ==
    LET isLocalhostConnection == loc.hostname = "localhost" \/ loc.hostname = "127.0.0.1"
        isHttpsConnection == loc.protocol = "https:"
        useMic == cfg["UseMic"]
    IN  IF useMic /\ isLocalhostConnection /\ ~isHttpsConnection THEN FALSE ELSE useMic

\* setupTransceiversAsync up to its first suspension point: the handle after
\* the synchronous addTransceiver calls
SetupSync(h, useMic) ==
    LET withVideo == addTransceiver(h, "video", "recvonly", FALSE)
    IN  IF ~useMic THEN addTransceiver(withVideo, "audio", "recvonly", FALSE)
        ELSE withVideo

\* setupTransceiversAsync after `await getUserMedia`: the handle after the
\* capture request settled with outcome "stream", "null" or "reject".  A
\* rejection leaves the async function at the await: nothing is added.  The
\* stream of an audio-only request holds one audio track.
SetupAfterCapture(h, hasTransceivers, outcome) ==
    IF h = NULL THEN h
    ELSE IF outcome = "stream"
         THEN (IF hasTransceivers THEN BindAudioTrack(h)
               ELSE addTransceiver(h, "audio", "sendrecv", TRUE))
    ELSE IF outcome = "null" THEN addTransceiver(h, "audio", "recvonly", FALSE)
    ELSE h
\* The .finally callback as it would be if a null handle were reported through
\* the .catch of the chain
InvokeCreateCaught(att, h) ==
    IF h = NULL
    THEN [att EXCEPT !.pc = "done",
                     !.hist = @ \o <<"TypeError",
                                     IF att.op = "createOffer" THEN "setupFailure"
                                     ELSE "logError">>]
    ELSE [att EXCEPT !.pc = "awaitCreate",
                     !.atCreate = h.transceivers,
                     !.remoteAtCreate = h.remoteDescription,
                     !.hist = Append(@, IF att.op = "createOffer" THEN "createOffer"
                                        ELSE "createAnswer")]


\* The .finally callback of createOffer (line 58) and receiveOffer (line 86):
\* it runs whether setup was fulfilled or rejected and invokes the handle's
\* createOffer / createAnswer; on a null handle the call throws a TypeError
\* inside the callback.
InvokeCreate(att, h) ==
    IF h = NULL
    THEN [att EXCEPT !.pc = "done", !.hist = Append(@, "TypeError")]
    ELSE [att EXCEPT !.pc = "awaitCreate",
                     !.atCreate = h.transceivers,
                     !.remoteAtCreate = h.remoteDescription,
                     !.hist = Append(@, IF att.op = "createOffer" THEN "createOffer"
                                        ELSE "createAnswer")]

\* One mungeSDP invocation, as the log remembers it
MungeEntry(sdp, useMic) ==
    [ sdp |-> sdp, useMic |-> useMic, forceMono |-> config["ForceMonoAudio"],
      out |-> mungeSDP(sdp, useMic, config["ForceMonoAudio"]) ]
\* createOffer as it would be if a null handle were reported to the owner as
\* a setup failure
createOfferReportsClosed(a) ==
    /\ Calls < MaxCalls
    /\ a = nAttempts + 1
    /\ nAttempts' = a
    /\ LET useMic == EffectiveUseMic(config, location)
           att == [NoAttempt EXCEPT !.op = "createOffer", !.startCfg = config,
                                    !.useMic = useMic,
                                    !.micFlag = IF config["UseMic"] THEN "on" ELSE "off"]
       IN  IF peerConnection = NULL
           THEN /\ attempts' = [attempts EXCEPT ![a] =
                        [att EXCEPT !.pc = "done",
                                    !.hist = <<"TypeError", "setupFailure">>]]
                /\ UNCHANGED peerConnection
           ELSE /\ peerConnection' = SetupSync(peerConnection, useMic)
                /\ attempts' = [attempts EXCEPT ![a] =
                        [att EXCEPT
                            !.hasTransceivers = Len(peerConnection.transceivers) > 0,
                            !.atSetup = peerConnection.transceivers,
                            !.pc = IF useMic THEN "awaitGUM" ELSE "setupSettled",
                            !.hist = IF useMic THEN <<"getUserMedia">> ELSE <<>>]]
    /\ UNCHANGED <<builtUrl, sessionVars, config, location, closeCalls, iceCalls, mungeLog, thrown, toggles>>


\* createOffer(offerOptions, config), the synchronous part
createOffer(a) ==
    /\ Calls < MaxCalls
    /\ a = nAttempts + 1
    /\ nAttempts' = a
    /\ LET useMic == EffectiveUseMic(config, location)
           att == [NoAttempt EXCEPT !.op = "createOffer", !.startCfg = config,
                                    !.useMic = useMic,
                                    !.micFlag = IF config["UseMic"] THEN "on" ELSE "off"]
       IN  IF peerConnection = NULL
           THEN /\ attempts' = [attempts EXCEPT ![a] =
                        [att EXCEPT !.pc = "done", !.hist = <<"TypeError">>]]
                /\ UNCHANGED peerConnection
           ELSE /\ peerConnection' = SetupSync(peerConnection, useMic)
                /\ attempts' = [attempts EXCEPT ![a] =
                        [att EXCEPT
                            !.hasTransceivers = Len(peerConnection.transceivers) > 0,
                            !.atSetup = peerConnection.transceivers,
                            !.pc = IF useMic THEN "awaitGUM" ELSE "setupSettled",
                            !.hist = IF useMic THEN <<"getUserMedia">> ELSE <<>>]]
    /\ UNCHANGED <<builtUrl, sessionVars, config, location, closeCalls, iceCalls, mungeLog, thrown, toggles>>

\* The .finally callback after a setup that never awaited (useMic false): it
\* runs once the caller's synchronous code has finished.
SetupFinally(a) ==
    /\ attempts[a].pc = "setupSettled"
    /\ attempts' = [attempts EXCEPT ![a] = InvokeCreate(@, peerConnection)]
    /\ UNCHANGED <<builtUrl, sessionVars, config, location, peerConnection, nAttempts, closeCalls,
                   iceCalls, mungeLog, thrown, toggles>>

\* navigator.mediaDevices.getUserMedia settles; the rest of
\* setupTransceiversAsync and the .finally callback follow as microtasks.
CaptureSettles(a, outcome) ==
    /\ attempts[a].pc = "awaitGUM"
    /\ LET h == SetupAfterCapture(peerConnection, attempts[a].hasTransceivers, outcome)
       IN  /\ peerConnection' = h
           /\ attempts' = [attempts EXCEPT ![a] =
                  InvokeCreate([@ EXCEPT !.hist = Append(@, "capture." \o outcome)], h)]
    /\ UNCHANGED <<builtUrl, sessionVars, config, location, nAttempts, closeCalls, iceCalls, mungeLog,
                   thrown, toggles>>

\* The .then callback of createOffer as it would be if it rewrote the SDP
\* after handing the offer to setLocalDescription
CreateOfferResolvesMungesLate(a, sdp) ==
    /\ attempts[a].op = "createOffer"
    /\ attempts[a].pc = "awaitCreate"
    /\ peerConnection # NULL
    /\ LET entry == MungeEntry(sdp, attempts[a].useMic)
           offer == [type |-> "offer", sdp |-> entry.out]
       IN  /\ mungeLog' = Append(mungeLog, entry)
           /\ attempts' = [attempts EXCEPT ![a] =
                  [@ EXCEPT !.pc = "awaitSLD",
                            !.created = sdp,
                            !.monoFlag = IF entry.forceMono THEN "on" ELSE "off",
                            !.desc = [type |-> "offer", sdp |-> sdp],
                            !.sent = offer,
                            !.hist = @ \o <<"createOffer.ok", "connecting",
                                            "setLocalDescription", "mungeSDP",
                                            "offer">>]]
    /\ UNCHANGED <<builtUrl, sessionVars, config, location, peerConnection, nAttempts, closeCalls,
                   iceCalls, thrown, toggles>>

\* The .then callback of createOffer as it would be without the call of
\* showTextOverlayConnecting
CreateOfferResolvesNoConnecting(a, sdp) ==
    /\ attempts[a].op = "createOffer"
    /\ attempts[a].pc = "awaitCreate"
    /\ peerConnection # NULL
    /\ LET entry == MungeEntry(sdp, attempts[a].useMic)
           offer == [type |-> "offer", sdp |-> entry.out]
       IN  /\ mungeLog' = Append(mungeLog, entry)
           /\ attempts' = [attempts EXCEPT ![a] =
                  [@ EXCEPT !.pc = "awaitSLD",
                            !.created = sdp,
                            !.monoFlag = IF entry.forceMono THEN "on" ELSE "off",
                            !.desc = offer,
                            !.sent = offer,
                            !.hist = @ \o <<"createOffer.ok", "mungeSDP",
                                            "setLocalDescription", "offer">>]]
    /\ UNCHANGED <<builtUrl, sessionVars, config, location, peerConnection, nAttempts, closeCalls,
                   iceCalls, thrown, toggles>>

\* The handle's createOffer promise is fulfilled with an offer: the .then
\* callback of lines 58-62.  A closed handle settles none of its promises.
CreateOfferResolves(a, sdp) ==
    /\ attempts[a].op = "createOffer"
    /\ attempts[a].pc = "awaitCreate"
    /\ peerConnection # NULL
    /\ LET entry == MungeEntry(sdp, attempts[a].useMic)
           offer == [type |-> "offer", sdp |-> entry.out]
       IN  /\ mungeLog' = Append(mungeLog, entry)
           /\ attempts' = [attempts EXCEPT ![a] =
                  [@ EXCEPT !.pc = "awaitSLD",
                            !.created = sdp,
                            !.monoFlag = IF entry.forceMono THEN "on" ELSE "off",
                            !.desc = offer,
                            !.sent = offer,
                            !.hist = @ \o <<"createOffer.ok", "connecting", "mungeSDP",
                                            "setLocalDescription", "offer">>]]
    /\ UNCHANGED <<builtUrl, sessionVars, config, location, peerConnection, nAttempts, closeCalls,
                   iceCalls, thrown, toggles>>

\* createOffer as it would be without its .catch callback
CreateOfferRejectsUncaught(a) ==
    /\ attempts[a].op = "createOffer"
    /\ attempts[a].pc = "awaitCreate"
    /\ peerConnection # NULL
    /\ attempts' = [attempts EXCEPT ![a] =
           [@ EXCEPT !.pc = "done", !.hist = Append(@, "createOffer.fail")]]
    /\ UNCHANGED <<builtUrl, sessionVars, config, location, peerConnection, nAttempts, closeCalls,
                   iceCalls, mungeLog, thrown, toggles>>

\* The handle's createOffer promise is rejected: the .catch callback of line 64
CreateOfferRejects(a) ==
    /\ attempts[a].op = "createOffer"
    /\ attempts[a].pc = "awaitCreate"
    /\ peerConnection # NULL
    /\ attempts' = [attempts EXCEPT ![a] =
           [@ EXCEPT !.pc = "done",
                     !.hist = @ \o <<"createOffer.fail", "setupFailure">>]]
    /\ UNCHANGED <<builtUrl, sessionVars, config, location, peerConnection, nAttempts, closeCalls,
                   iceCalls, mungeLog, thrown, toggles>>

\* The .then callback of receiveOffer as it would be if it emitted the answer
\* itself, as createOffer does with its offer
CreateAnswerResolvesSendsRaw(a, sdp) ==
    /\ attempts[a].op = "receiveOffer"
    /\ attempts[a].pc = "awaitCreate"
    /\ peerConnection # NULL
    /\ LET entry == MungeEntry(sdp, attempts[a].useMic)
           answer == [type |-> "answer", sdp |-> entry.out]
       IN  /\ mungeLog' = Append(mungeLog, entry)
           /\ attempts' = [attempts EXCEPT ![a] =
                  [@ EXCEPT !.pc = "awaitSLD",
                            !.created = sdp,
                            !.monoFlag = IF entry.forceMono THEN "on" ELSE "off",
                            !.desc = answer,
                            !.sent = answer,
                            !.hist = @ \o <<"createAnswer.ok", "mungeSDP",
                                            "setLocalDescription", "answer">>]]
    /\ UNCHANGED <<builtUrl, sessionVars, config, location, peerConnection, nAttempts, closeCalls,
                   iceCalls, thrown, toggles>>

\* The handle's createAnswer promise is fulfilled: the .then callback of
\* lines 87-90, which returns the setLocalDescription promise
CreateAnswerResolves(a, sdp) ==
    /\ attempts[a].op = "receiveOffer"
    /\ attempts[a].pc = "awaitCreate"
    /\ peerConnection # NULL
    /\ LET entry == MungeEntry(sdp, attempts[a].useMic)
       IN  /\ mungeLog' = Append(mungeLog, entry)
           /\ attempts' = [attempts EXCEPT ![a] =
                  [@ EXCEPT !.pc = "awaitSLD",
                            !.created = sdp,
                            !.monoFlag = IF entry.forceMono THEN "on" ELSE "off",
                            !.desc = [type |-> "answer", sdp |-> entry.out],
                            !.hist = @ \o <<"createAnswer.ok", "mungeSDP",
                                            "setLocalDescription">>]]
    /\ UNCHANGED <<builtUrl, sessionVars, config, location, peerConnection, nAttempts, closeCalls,
                   iceCalls, thrown, toggles>>

\* The .catch callback of receiveOffer as it would be if it were the one of
\* createOffer
CreateAnswerRejectsShowsFailure(a) ==
    /\ attempts[a].op = "receiveOffer"
    /\ attempts[a].pc = "awaitCreate"
    /\ peerConnection # NULL
    /\ attempts' = [attempts EXCEPT ![a] =
           [@ EXCEPT !.pc = "done",
                     !.hist = @ \o <<"createAnswer.fail", "setupFailure">>]]
    /\ UNCHANGED <<builtUrl, sessionVars, config, location, peerConnection, nAttempts, closeCalls,
                   iceCalls, mungeLog, thrown, toggles>>

\* The handle's createAnswer promise is rejected: the .catch callback of line 95
CreateAnswerRejects(a) ==
    /\ attempts[a].op = "receiveOffer"
    /\ attempts[a].pc = "awaitCreate"
    /\ peerConnection # NULL
    /\ attempts' = [attempts EXCEPT ![a] =
           [@ EXCEPT !.pc = "done",
                     !.hist = @ \o <<"createAnswer.fail", "logError">>]]
    /\ UNCHANGED <<builtUrl, sessionVars, config, location, peerConnection, nAttempts, closeCalls,
                   iceCalls, mungeLog, thrown, toggles>>

\* The handle commits a local description: every transceiver of a committed
\* offer is associated with a media line
CommitLocal(h, desc) ==
    [h EXCEPT !.localDescription = desc,
              !.transceivers =
                  IF desc.type = "offer"
                  THEN [i \in 1..Len(@) |-> [@[i] EXCEPT !.mid = TRUE]]
                  ELSE @]

\* The setLocalDescription promise is fulfilled.  createOffer attached nothing
\* to it (line 61); receiveOffer emits the committed description (line 92).
SetLocalResolves(a) ==
    /\ attempts[a].pc = "awaitSLD"
    /\ peerConnection # NULL
    /\ LET h == CommitLocal(peerConnection, attempts[a].desc)
       IN  /\ peerConnection' = h
           /\ attempts' = [attempts EXCEPT ![a] =
                  IF @.op = "createOffer"
                  THEN [@ EXCEPT !.pc = "done",
                                 !.committed = h.localDescription,
                                 !.hist = Append(@, "setLocalDescription.ok")]
                  ELSE [@ EXCEPT !.pc = "done",
                                 !.committed = h.localDescription,
                                 !.sent = h.localDescription,
                                 !.hist = @ \o <<"setLocalDescription.ok", "answer">>]]
    /\ UNCHANGED <<builtUrl, sessionVars, config, location, nAttempts, closeCalls, iceCalls, mungeLog,
                   thrown, toggles>>

\* The setLocalDescription promise is rejected: unhandled in createOffer,
\* caught by the .catch of line 94 in receiveOffer
SetLocalRejects(a) ==
    /\ attempts[a].pc = "awaitSLD"
    /\ peerConnection # NULL
    /\ attempts' = [attempts EXCEPT ![a] =
           IF @.op = "createOffer"
           THEN [@ EXCEPT !.pc = "done", !.hist = Append(@, "setLocalDescription.fail")]
           ELSE [@ EXCEPT !.pc = "done",
                          !.hist = @ \o <<"setLocalDescription.fail", "logError">>]]
    /\ UNCHANGED <<builtUrl, sessionVars, config, location, peerConnection, nAttempts, closeCalls,
                   iceCalls, mungeLog, thrown, toggles>>

\* receiveOffer as it would be if it went on to setup and createAnswer without
\* waiting for the setRemoteDescription promise
receiveOfferNoWait(a, Offer) ==
    /\ Calls < MaxCalls
    /\ a = nAttempts + 1
    /\ a <= MaxAttempts
    /\ nAttempts' = a
    /\ LET useMic == EffectiveUseMic(config, location)
           att == [NoAttempt EXCEPT !.op = "receiveOffer", !.remote = Offer,
                                    !.startCfg = config,
                                    !.useMic = useMic,
                                    !.hist = <<"setRemoteDescription">>]
       IN  IF peerConnection = NULL
           THEN /\ attempts' = [attempts EXCEPT ![a] =
                        [att EXCEPT !.pc = "done", !.hist = <<"TypeError">>]]
                /\ UNCHANGED peerConnection
           ELSE LET h == SetupSync(peerConnection, useMic)
                IN  /\ peerConnection' = h
                    /\ attempts' = [attempts EXCEPT ![a] =
                           IF useMic
                           THEN [att EXCEPT !.pc = "awaitGUM",
                                            !.hist = Append(@, "getUserMedia")]
                           ELSE InvokeCreate(att, h)]
    /\ UNCHANGED <<builtUrl, sessionVars, config, location, closeCalls, iceCalls, mungeLog, thrown, toggles>>

\* receiveOffer(Offer, config), the synchronous part: setRemoteDescription is
\* called; on a null handle the call throws inside the async function.
receiveOffer(a, Offer) ==
    /\ Calls < MaxCalls
    /\ a = nAttempts + 1
    /\ nAttempts' = a
    /\ LET att == [NoAttempt EXCEPT !.op = "receiveOffer", !.remote = Offer,
                                    !.startCfg = config]
       IN  attempts' = [attempts EXCEPT ![a] =
               IF peerConnection = NULL
               THEN [att EXCEPT !.pc = "done", !.hist = <<"TypeError">>]
               ELSE [att EXCEPT !.pc = "awaitSRD", !.hist = <<"setRemoteDescription">>]]
    /\ UNCHANGED <<builtUrl, sessionVars, config, location, peerConnection, closeCalls, iceCalls,
                   mungeLog, thrown, toggles>>

\* The handle commits a remote offer
CommitRemote(h, Offer) ==
    [h EXCEPT !.remoteDescription = [type |-> Offer.type, sdp |-> Offer.sdp],
              !.transceivers = ApplyRemoteOffer(@, Offer.kinds)]

\* What receiveOffer does once the remote description is committed (lines
\* 76-85): the microphone decision, then transceiver setup, whose .finally
\* callback follows as a microtask when setup did not await.
AfterRemoteCommitted(att, h) ==
    LET useMic == EffectiveUseMic(config, location)
        started == [att EXCEPT !.useMic = useMic,
                               !.micFlag = IF config["UseMic"] THEN "on" ELSE "off",
                               !.hasTransceivers = Len(h.transceivers) > 0,
                               !.atSetup = h.transceivers,
                               !.hist = Append(@, "setRemoteDescription.ok")]
        h2 == SetupSync(h, useMic)
    IN  IF useMic
        THEN [h |-> h2,
              att |-> [started EXCEPT !.pc = "awaitGUM",
                                      !.hist = Append(@, "getUserMedia")]]
        ELSE [h |-> h2, att |-> InvokeCreate(started, h2)]

\* The setRemoteDescription promise of receiveOffer is fulfilled
SetRemoteResolves(a) ==
    /\ attempts[a].pc = "awaitSRD"
    /\ peerConnection # NULL
    /\ LET r == AfterRemoteCommitted(attempts[a],
                                     CommitRemote(peerConnection, attempts[a].remote))
       IN  /\ peerConnection' = r.h
           /\ attempts' = [attempts EXCEPT ![a] = r.att]
    /\ UNCHANGED <<builtUrl, sessionVars, config, location, nAttempts, closeCalls, iceCalls, mungeLog,
                   thrown, toggles>>
\* The rejection as it would be if the callback of line 75 were attached with
\* .finally: setup and answer creation go on without a remote description
SetRemoteRejectsContinues(a) ==
    /\ attempts[a].pc = "awaitSRD"
    /\ peerConnection # NULL
    /\ LET failed == [attempts[a] EXCEPT
                         !.hist = Append(@, "setRemoteDescription.fail")]
           r == AfterRemoteCommitted(failed, peerConnection)
       IN  /\ peerConnection' = r.h
           /\ attempts' = [attempts EXCEPT ![a] = r.att]
    /\ UNCHANGED <<builtUrl, sessionVars, config, location, nAttempts, closeCalls, iceCalls, mungeLog,
                   thrown, toggles>>


\* The setRemoteDescription promise of receiveOffer is rejected: nothing is
\* attached to the rejection (line 75 has a .then only)
SetRemoteRejects(a) ==
    /\ attempts[a].pc = "awaitSRD"
    /\ peerConnection # NULL
    /\ attempts' = [attempts EXCEPT ![a] =
           [@ EXCEPT !.pc = "done", !.hist = Append(@, "setRemoteDescription.fail")]]
    /\ UNCHANGED <<builtUrl, sessionVars, config, location, peerConnection, nAttempts, closeCalls,
                   iceCalls, mungeLog, thrown, toggles>>

\* handleOnIce as it would be with the marker misspelt "rela"
IceDecisionMisspelt(cfg, candidate) ==
    IF cfg["ForceTURN"] /\ IndexOf(candidate, <<"r", "e", "l", "a">>) < 0
    THEN "dropped" ELSE "added"

\* handleOnIce(iceCandidate): what the call does with the candidate
IceDecision(cfg, candidate) ==
    IF cfg["ForceTURN"] /\ IndexOf(candidate, Relay) < 0 THEN "dropped" ELSE "added"

\* handleOnIce as it would be if it held candidates back until a remote
\* description is committed
handleOnIceAwaitsRemote(candidate) ==
    /\ Calls < MaxCalls
    /\ Len(iceCalls) < MaxIce
    /\ LET decision == IceDecision(config, candidate)
           passed == /\ decision = "added"
                     /\ peerConnection # NULL
                     /\ peerConnection.remoteDescription # NoDescription
       IN  /\ iceCalls' = Append(iceCalls,
                  [candidate |-> candidate, forceTURN |-> config["ForceTURN"],
                   passed |-> passed, logInfo |-> decision = "dropped",
                   logged |-> IF decision = "dropped" THEN <<"Log", "Info">>
                                                      ELSE <<"Log">>])
           /\ peerConnection' =
                  IF passed
                  THEN [peerConnection EXCEPT !.iceCandidates = Append(@, candidate)]
                  ELSE peerConnection
           /\ thrown' = IF decision = "added" /\ peerConnection = NULL
                        THEN [thrown EXCEPT !.handleOnIce = @ + 1] ELSE thrown
    /\ UNCHANGED <<builtUrl, sessionVars, config, location, attempts, nAttempts, closeCalls, mungeLog, toggles>>

\* handleOnIce as it would be without the `return` of line 175
handleOnIceNoReturn(candidate) ==
    /\ Calls < MaxCalls
    /\ Len(iceCalls) < MaxIce
    /\ LET decision == IceDecision(config, candidate)
           passed == peerConnection # NULL
       IN  /\ iceCalls' = Append(iceCalls,
                  [candidate |-> candidate, forceTURN |-> config["ForceTURN"],
                   passed |-> passed, logInfo |-> decision = "dropped",
                   logged |-> IF decision = "dropped" THEN <<"Log", "Info">>
                                                      ELSE <<"Log">>])
           /\ peerConnection' =
                  IF passed
                  THEN [peerConnection EXCEPT !.iceCandidates = Append(@, candidate)]
                  ELSE peerConnection
           /\ thrown' = IF peerConnection = NULL
                        THEN [thrown EXCEPT !.handleOnIce = @ + 1] ELSE thrown
    /\ UNCHANGED <<builtUrl, sessionVars, config, location, attempts, nAttempts, closeCalls, mungeLog, toggles>>

\* handleOnIce(iceCandidate); `logged` is the Logger calls of the invocation
\* in order: Logger.Log at line 168, Logger.Info at line 174 on a drop
handleOnIce(candidate) ==
    /\ Calls < MaxCalls
    /\ Len(iceCalls) < MaxIce
    /\ LET decision == IceDecision(config, candidate)
           passed == decision = "added" /\ peerConnection # NULL
       IN  /\ iceCalls' = Append(iceCalls,
                  [candidate |-> candidate, forceTURN |-> config["ForceTURN"],
                   passed |-> passed, logInfo |-> decision = "dropped",
                   logged |-> IF decision = "dropped" THEN <<"Log", "Info">>
                                                      ELSE <<"Log">>])
           /\ peerConnection' =
                  IF passed
                  THEN [peerConnection EXCEPT !.iceCandidates = Append(@, candidate)]
                  ELSE peerConnection
           /\ thrown' = IF decision = "added" /\ peerConnection = NULL
                        THEN [thrown EXCEPT !.handleOnIce = @ + 1] ELSE thrown
    /\ UNCHANGED <<builtUrl, sessionVars, config, location, attempts, nAttempts, closeCalls, mungeLog, toggles>>

\* close() as it would be without the `if (this.peerConnection)` guard
CloseEffectNoGuard(h) ==
    IF h # NULL THEN [pc |-> NULL, closed |-> 1, threw |-> 0]
    ELSE [pc |-> NULL, closed |-> 0, threw |-> 1]

\* close() as it would be if it built a new connection when there is none
CloseEffectReopens(h) ==
    IF h # NULL THEN [pc |-> NULL, closed |-> 1, threw |-> 0]
    ELSE [pc |-> [NewPeerConnection([iceTransportPolicy |-> "all"]) EXCEPT !.id = 2],
          closed |-> 0, threw |-> 0]

\* close(): [the field afterwards, whether the handle's close() was called,
\* whether the call threw]
CloseEffect(h) ==
    IF h # NULL THEN [pc |-> NULL, closed |-> 1, threw |-> 0]
    ELSE [pc |-> h, closed |-> 0, threw |-> 0]

close ==
    /\ Calls < MaxCalls
    /\ closeCalls.api < MaxClose
    /\ LET e == CloseEffect(peerConnection)
       IN  /\ peerConnection' = e.pc
           /\ closeCalls' = [api |-> closeCalls.api + 1,
                             handle |-> closeCalls.handle + e.closed]
           /\ thrown' = [thrown EXCEPT !.close = @ + e.threw]
    /\ UNCHANGED <<builtUrl, sessionVars, config, location, attempts, nAttempts, iceCalls, mungeLog, toggles>>

\* The owner's settings panel changes a flag of the shared Config object
SetFlag(f) ==
    /\ Calls < MaxCalls
    /\ toggles < MaxToggles
    /\ toggles' = toggles + 1
    /\ config' = [config EXCEPT ![f] = ~@]
    /\ UNCHANGED <<builtUrl, sessionVars, location, peerConnection, attempts, nAttempts, closeCalls,
                   iceCalls, mungeLog, thrown>>

-----------------------------------------------------------------------------
(* receiveAnswer *)

RemoteAnswers == { [type |-> "answer", sdp |-> <<"m=video", CRLF, "m=audio", CRLF>>] }

\* receiveAnswer(sdp): calls the handle's setRemoteDescription and drops the
\* promise; on a closed controller the call throws a TypeError
receiveAnswer(Answer) ==
    /\ Calls < MaxCalls
    /\ Len(answerCalls) < MaxAnswers
    /\ answerCalls' = Append(answerCalls,
           [sdp |-> Answer,
            pc |-> IF peerConnection = NULL THEN "threw" ELSE "pending"])
    /\ UNCHANGED <<builtUrl, config, location, peerConnection, attempts, nAttempts, closeCalls,
                   iceCalls, mungeLog, thrown, toggles, statsCalls, aggregatedStats,
                   videoStats, sendToServer, handlerCalls>>

\* The fulfilment as it would be if the answer were applied like a remote
\* offer, creating transceivers for its media lines
ReceiveAnswerResolvesAddsLines(i) ==
    /\ answerCalls[i].pc = "pending"
    /\ peerConnection # NULL
    /\ peerConnection' =
           [peerConnection EXCEPT
               !.remoteDescription = answerCalls[i].sdp,
               !.transceivers = Append(@, [kind |-> "video", direction |-> "recvonly",
                                           track |-> FALSE, mid |-> TRUE])]
    /\ answerCalls' = [answerCalls EXCEPT ![i].pc = "committed"]
    /\ UNCHANGED <<builtUrl, config, location, attempts, nAttempts, closeCalls,
                   iceCalls, mungeLog, thrown, toggles, statsCalls, aggregatedStats,
                   videoStats, sendToServer, handlerCalls>>

\* The handle fulfils the setRemoteDescription of a receiveAnswer call: the
\* answer becomes its remote description; no callback is attached
ReceiveAnswerResolves(i) ==
    /\ answerCalls[i].pc = "pending"
    /\ peerConnection # NULL
    /\ peerConnection' = [peerConnection EXCEPT !.remoteDescription = answerCalls[i].sdp]
    /\ answerCalls' = [answerCalls EXCEPT ![i].pc = "committed"]
    /\ UNCHANGED <<builtUrl, config, location, attempts, nAttempts, closeCalls,
                   iceCalls, mungeLog, thrown, toggles, statsCalls, aggregatedStats,
                   videoStats, sendToServer, handlerCalls>>

\* The handle rejects it: an unhandled rejection
ReceiveAnswerRejects(i) ==
    /\ answerCalls[i].pc = "pending"
    /\ peerConnection # NULL
    /\ answerCalls' = [answerCalls EXCEPT ![i].pc = "rejected"]
    /\ UNCHANGED <<builtUrl, config, location, peerConnection, attempts, nAttempts, closeCalls,
                   iceCalls, mungeLog, thrown, toggles, statsCalls, aggregatedStats,
                   videoStats, sendToServer, handlerCalls>>

-----------------------------------------------------------------------------
(* generateStats and the delegate's onVideoStats *)

\* raw reports of the handle: the bitrates of their entries
SampleReports == { <<>>, <<1>>, <<1, 2>> }

RECURSIVE Sum(_)
Sum(r) == IF r = <<>> THEN 0 ELSE Head(r) + Sum(Tail(r))

\* aggregatedStats.processStats(StatsData): the aggregator keeps the reduction
\* of the latest report only, and how many it has reduced
processStats(agg, report) ==
    [reports |-> agg.reports + 1, entries |-> Len(report), bitrate |-> Sum(report)]

\* the delegate's onVideoStats as it would be if it forwarded whatever the flag
onVideoStatsAlwaysForwards(stats, flag) ==
    [videoStats |-> stats, flag |-> flag, base |-> 1, forwarded |-> 1]

\* NativeDOMDelegate.onVideoStats(videoStats): the calls of super.onVideoStats
\* and of sendStatsToSignallingServer it makes, given the flag's value
onVideoStats(stats, flag) ==
    [videoStats |-> stats, flag |-> flag, base |-> 1,
     forwarded |-> IF flag THEN 1 ELSE 0]

\* generateStats(): requests a report from the handle; on a closed controller
\* the call throws a TypeError
generateStats ==
    /\ Calls < MaxCalls
    /\ Len(statsCalls) < MaxStats
    /\ statsCalls' = Append(statsCalls,
           [pc |-> IF peerConnection = NULL THEN "threw" ELSE "pending",
            report |-> <<>>, seen |-> NewAggregatedStats, emitted |-> 0])
    /\ UNCHANGED <<builtUrl, config, location, peerConnection, attempts, nAttempts, closeCalls,
                   iceCalls, mungeLog, thrown, toggles, answerCalls, aggregatedStats,
                   videoStats, sendToServer, handlerCalls>>

\* generateStats's callback as it would be with its two statements exchanged
GetStatsResolvesEmitsFirst(i, report) ==
    /\ statsCalls[i].pc = "pending"
    /\ LET event == onVideoStats(aggregatedStats, sendToServer)
       IN  /\ aggregatedStats' = processStats(aggregatedStats, report)
           /\ videoStats' = Append(videoStats, event)
           /\ statsCalls' = [statsCalls EXCEPT ![i] =
                  [pc |-> "delivered", report |-> report,
                   seen |-> event.videoStats, emitted |-> 1]]
    /\ UNCHANGED <<builtUrl, config, location, peerConnection, attempts, nAttempts, closeCalls,
                   iceCalls, mungeLog, thrown, toggles, answerCalls,
                   sendToServer, handlerCalls>>

\* The handle fulfils a getStats request with a report: the .then callback of
\* lines 114-117 reduces it and calls the hook onVideoStats, which the owner
\* binds to the delegate's onVideoStats. The callback does not read
\* this.peerConnection, so it runs the same after close().
GetStatsResolves(i, report) ==
    /\ statsCalls[i].pc = "pending"
    /\ LET agg == processStats(aggregatedStats, report)
           event == onVideoStats(agg, sendToServer)
       IN  /\ aggregatedStats' = agg
           /\ videoStats' = Append(videoStats, event)
           /\ statsCalls' = [statsCalls EXCEPT ![i] =
                  [pc |-> "delivered", report |-> report,
                   seen |-> event.videoStats, emitted |-> 1]]
    /\ UNCHANGED <<builtUrl, config, location, peerConnection, attempts, nAttempts, closeCalls,
                   iceCalls, mungeLog, thrown, toggles, answerCalls,
                   sendToServer, handlerCalls>>

\* The handle rejects a getStats request: no callback is attached to the
\* rejection
GetStatsRejects(i) ==
    /\ statsCalls[i].pc = "pending"
    /\ statsCalls' = [statsCalls EXCEPT ![i].pc = "failed"]
    /\ UNCHANGED <<builtUrl, config, location, peerConnection, attempts, nAttempts, closeCalls,
                   iceCalls, mungeLog, thrown, toggles, answerCalls, aggregatedStats,
                   videoStats, sendToServer, handlerCalls>>

\* The owner's settings panel changes the flag "sendStatsToServer"
SetSendToServer ==
    /\ Calls < MaxCalls
    /\ toggles < MaxToggles
    /\ toggles' = toggles + 1
    /\ sendToServer' = ~sendToServer
    /\ UNCHANGED <<builtUrl, config, location, peerConnection, attempts, nAttempts, closeCalls,
                   iceCalls, mungeLog, thrown, answerCalls, statsCalls,
                   aggregatedStats, videoStats, handlerCalls>>

-----------------------------------------------------------------------------
(* The handlers the constructor installs on the handle *)

HandleEvents ==
    { "signalingstatechange", "iceconnectionstatechange", "icegatheringstatechange",
      "track", "icecandidate", "datachannel" }

\* what the handler of an event does: a Logger.Log line, or a call of a hook
\* with an empty default body
Handler(ev) ==
    CASE ev = "signalingstatechange" -> [event |-> ev, did |-> "Log"]
      [] ev = "iceconnectionstatechange" -> [event |-> ev, did |-> "Log"]
      [] ev = "icegatheringstatechange" -> [event |-> ev, did |-> "Log"]
      [] ev = "track" -> [event |-> ev, did |-> "onTrack"]
      [] ev = "icecandidate" -> [event |-> ev, did |-> "onPeerIceCandidate"]
      [] ev = "datachannel" -> [event |-> ev, did |-> "onDataChannel"]

\* The open handle fires an event
HandleEvent(ev) ==
    /\ peerConnection # NULL
    /\ Calls < MaxCalls
    /\ Len(handlerCalls) < MaxEvents
    /\ handlerCalls' = Append(handlerCalls, Handler(ev))
    /\ UNCHANGED <<builtUrl, config, location, peerConnection, attempts, nAttempts, closeCalls,
                   iceCalls, mungeLog, thrown, toggles, answerCalls, statsCalls,
                   aggregatedStats, videoStats, sendToServer>>

-----------------------------------------------------------------------------
(* The delegate's signalling server URL *)

\* the characters the sample URLs are made of
UrlChars == {"/", "w", "s", "a"}

\* the values of the text setting SignallingServerUrl, the empty string among
\* them
SampleUrls == UNION { [1..n -> UrlChars] : n \in 0..MaxUrlLen }

\* s.endsWith(suffix)
EndsWith(s, suffix) ==
    /\ Len(s) >= Len(suffix)
    /\ SubSeq(s, Len(s) - Len(suffix) + 1, Len(s)) = suffix

\* the builder as it would be without the test for a trailing "/"
buildSignallingServerUrlNoSlashTest(signallingUrl) ==
    IF signallingUrl # <<>> /\ ~EndsWith(signallingUrl, <<"/", "w", "s">>)
    THEN signallingUrl \o <<"/", "w", "s">>
    ELSE signallingUrl

\* the function enforceSpecialSignallingServerUrl installs as
\* buildSignallingServerUrl, applied to the value of the setting
buildSignallingServerUrl(signallingUrl) ==
    IF signallingUrl # <<>> /\ ~EndsWith(signallingUrl, <<"/", "w", "s">>)
    THEN IF EndsWith(signallingUrl, <<"/">>)
         THEN signallingUrl \o <<"w", "s">>
         ELSE signallingUrl \o <<"/", "w", "s">>
    ELSE signallingUrl

\* The controller calls the builder while the setting holds signallingUrl
BuildUrl(signallingUrl) ==
    /\ builtUrl' = [called |-> TRUE, setting |-> signallingUrl,
                    url |-> buildSignallingServerUrl(signallingUrl)]
    /\ UNCHANGED <<config, location, peerConnection, attempts, nAttempts, closeCalls,
                   iceCalls, mungeLog, thrown, toggles, answerCalls, statsCalls,
                   aggregatedStats, videoStats, sendToServer, handlerCalls>>

-----------------------------------------------------------------------------

Next ==
    \/ \E a \in Attempts : NoneInFlight /\ createOffer(a)
    \/ \E a \in Attempts : SetupFinally(a)
    \/ \E a \in Attempts, o \in {"stream", "null", "reject"} : CaptureSettles(a, o)
    \/ \E a \in Attempts, sdp \in SampleSDPs : CreateOfferResolves(a, sdp)
    \/ \E a \in Attempts : CreateOfferRejects(a)
    \/ \E a \in Attempts, sdp \in SampleSDPs : CreateAnswerResolves(a, sdp)
    \/ \E a \in Attempts : CreateAnswerRejects(a)
    \/ \E a \in Attempts : SetLocalResolves(a)
    \/ \E a \in Attempts : SetLocalRejects(a)
    \/ \E a \in Attempts, o \in RemoteOffers : NoneInFlight /\ receiveOffer(a, o)
    \/ \E a \in Attempts : SetRemoteResolves(a)
    \/ \E a \in Attempts : SetRemoteRejects(a)
    \/ \E c \in SampleCandidates : handleOnIce(c)
    \/ close
    \/ \E f \in FlagNames : SetFlag(f)

Spec == Init /\ [][Next]_vars

\* The statistics poll alone, on a controller that may be closed
NextStats ==
    \/ generateStats
    \/ \E i \in 1..Len(statsCalls), r \in SampleReports : GetStatsResolves(i, r)
    \/ \E i \in 1..Len(statsCalls) : GetStatsRejects(i)
    \/ SetSendToServer
    \/ close

SpecStats == Init /\ [][NextStats]_vars

\* Every public method, every settlement of the handle's promises and every
\* handle event
NextSession ==
    \/ Next
    \/ \E ans \in RemoteAnswers : receiveAnswer(ans)
    \/ \E i \in 1..Len(answerCalls) : ReceiveAnswerResolves(i)
    \/ \E i \in 1..Len(answerCalls) : ReceiveAnswerRejects(i)
    \/ generateStats
    \/ \E i \in 1..Len(statsCalls), r \in SampleReports : GetStatsResolves(i, r)
    \/ \E i \in 1..Len(statsCalls) : GetStatsRejects(i)
    \/ \E ev \in HandleEvents : HandleEvent(ev)

\* a session on one page, https://example.com
InitSession ==
    /\ Init
    /\ location = [hostname |-> "example.com", protocol |-> "https:"]

SpecSession == InitSession /\ [][NextSession]_vars

\* The negotiation with nothing keeping the owner from calling createOffer or
\* receiveOffer while an earlier call is pending: the code has no such guard
NextOverlap ==
    \/ \E a \in Attempts : createOffer(a)
    \/ \E a \in Attempts : SetupFinally(a)
    \/ \E a \in Attempts, o \in {"stream", "null", "reject"} : CaptureSettles(a, o)
    \/ \E a \in Attempts, sdp \in SampleSDPs : CreateOfferResolves(a, sdp)
    \/ \E a \in Attempts : CreateOfferRejects(a)
    \/ \E a \in Attempts, sdp \in SampleSDPs : CreateAnswerResolves(a, sdp)
    \/ \E a \in Attempts : CreateAnswerRejects(a)
    \/ \E a \in Attempts : SetLocalResolves(a)
    \/ \E a \in Attempts : SetLocalRejects(a)
    \/ \E a \in Attempts, o \in RemoteOffers : receiveOffer(a, o)
    \/ \E a \in Attempts : SetRemoteResolves(a)
    \/ \E a \in Attempts : SetRemoteRejects(a)
    \/ close

SpecOverlap == InitSession /\ [][NextOverlap]_vars

\* The delegate's URL builder, called for any value of the setting
NextUrl == \E u \in SampleUrls : BuildUrl(u)

SpecUrl == InitSession /\ [][NextUrl]_vars

-----------------------------------------------------------------------------
(* Reading the record of an attempt *)

\* e occurs in h
Has(h, e) == \E i \in 1..Len(h) : h[i] = e

\* every occurrence of e2 in h has an occurrence of e1 before it
Precedes(h, e1, e2) ==
    \A j \in 1..Len(h) : h[j] = e2 => \E i \in 1..(j - 1) : h[i] = e1

\* how many times e occurs in h
Count(h, e) == Cardinality({i \in 1..Len(h) : h[i] = e})

\* how many transceivers of tcs have this kind and one of these directions
CountLines(tcs, kind, directions) ==
    Cardinality({i \in 1..Len(tcs) : tcs[i].kind = kind /\ tcs[i].direction \in directions})

\* the attempt has invoked the handle's createOffer / createAnswer
InvokedCreate(a) ==
    Has(attempts[a].hist, "createOffer") \/ Has(attempts[a].hist, "createAnswer")

\* the page is neither HTTPS nor localhost / 127.0.0.1
InsecureOrigin ==
    /\ location.protocol # "https:"
    /\ location.hostname \notin {"localhost", "127.0.0.1"}

-----------------------------------------------------------------------------
(* Claims *)

\* C1: handleOnIce never passes a candidate lacking "relay" to the handle's
\* addIceCandidate while ForceTURN is enabled.
C1_ForceTurnAddsOnlyRelay ==
    \A i \in 1..Len(iceCalls) :
        (iceCalls[i].forceTURN /\ iceCalls[i].passed)
            => Contains(iceCalls[i].candidate, Relay)

\* C1 witness: under ForceTURN one candidate without the marker was dropped
\* and one with the marker was passed to the handle.
C1_Witness ==
    \E i, j \in 1..Len(iceCalls) :
        /\ iceCalls[i].forceTURN /\ ~Contains(iceCalls[i].candidate, Relay)
        /\ ~iceCalls[i].passed /\ iceCalls[i].logInfo
        /\ iceCalls[j].forceTURN /\ iceCalls[j].passed
        /\ peerConnection # NULL
        /\ Len(peerConnection.iceCandidates) = 1

\* C2: an attempt that reads UseMic=true on an origin that is neither HTTPS nor
\* localhost forces useMic to false and issues no getUserMedia request.
C2_InsecureOriginDisablesMic ==
    \A a \in Attempts :
        (attempts[a].micFlag = "on" /\ InsecureOrigin)
            => /\ ~attempts[a].useMic
               /\ ~Has(attempts[a].hist, "getUserMedia")

\* C3: when createOffer / createAnswer is invoked the transceiver set holds
\* exactly one video line, receive-only, and exactly one audio line.
C3_OneVideoOneAudioAtCreate ==
    \A a \in Attempts :
        InvokedCreate(a) =>
            /\ CountLines(attempts[a].atCreate, "video", {"recvonly", "sendrecv"}) = 1
            /\ CountLines(attempts[a].atCreate, "video", {"recvonly"}) = 1
            /\ CountLines(attempts[a].atCreate, "audio", {"recvonly", "sendrecv"}) = 1

\* C4: when the microphone is requested and capture is rejected or yields no
\* stream (the handle still open), setup adds a receive-only audio transceiver
\* and offer/answer creation is still invoked.
C4_CaptureFailureFallsBack ==
    \A a \in Attempts :
        ( /\ Has(attempts[a].hist, "capture.reject") \/ Has(attempts[a].hist, "capture.null")
          /\ closeCalls.handle = 0 )
            => /\ InvokedCreate(a)
               /\ CountLines(attempts[a].atCreate, "audio", {"recvonly"})
                     = CountLines(attempts[a].atSetup, "audio", {"recvonly"}) + 1

\* The stereo flags the policy asks for
StereoFlags(forceMono) ==
    IF forceMono THEN <<"sprop-stereo=0", "stereo=0">>
    ELSE <<"sprop-stereo=1", "stereo=1">>

\* C5: for an input containing useinbandfec=1, the SDP mungeSDP returns
\* contains sprop-stereo=0;stereo=0 under ForceMonoAudio and
\* sprop-stereo=1;stereo=1 without it.
C5_StereoFlagsInOutput ==
    \A i \in 1..Len(mungeLog) :
        Contains(mungeLog[i].sdp, UseInbandFec)
            => Contains(mungeLog[i].out, StereoFlags(mungeLog[i].forceMono))

\* The policy rewrite of the specification: bitrates appended to every fmtp
\* line carrying level-asymmetry-allowed, the useinbandfec=1 marker replaced
\* by the audio block
PolicyRewrite(sdp, useMic, forceMono) ==
    ReplaceFirst(ReplaceFmtp(sdp, 1, "none"), UseInbandFec, AudioSDP(useMic, forceMono))

\* C6: the SDP mungeSDP returns is the policy rewrite of its input, and every
\* emitted offer created with useinbandfec=1 contains maxaveragebitrate=510000.
C6_OutputIsPolicyRewrite ==
    /\ \A i \in 1..Len(mungeLog) :
          mungeLog[i].out
              = PolicyRewrite(mungeLog[i].sdp, mungeLog[i].useMic, mungeLog[i].forceMono)
    /\ \A a \in Attempts :
          (attempts[a].sent.type = "offer" /\ Contains(attempts[a].created, UseInbandFec))
              => Contains(attempts[a].sent.sdp, <<"maxaveragebitrate=510000">>)

C8_CloseIdempotent ==
    /\ thrown.close = 0
    /\ closeCalls.handle = (IF closeCalls.api = 0 THEN 0 ELSE 1)
    /\ (closeCalls.api > 0 => peerConnection = NULL)
    /\ (closeCalls.api = 0 => peerConnection # NULL)

\* C8 witness: close() was called twice, the first time with a negotiation
\* under way.
C8_Witness ==
    /\ closeCalls.api = 2
    /\ closeCalls.handle = 1
    /\ peerConnection = NULL
    /\ \E a \in Attempts : attempts[a].pc \in {"awaitGUM", "awaitCreate", "awaitSLD", "awaitSRD"}

\* C9: createOffer emits the offer only after the setLocalDescription of that
\* offer has been fulfilled.
C9_OfferSentAfterLocalCommit ==
    \A a \in Attempts :
        attempts[a].op = "createOffer"
            => Precedes(attempts[a].hist, "setLocalDescription.ok", "offer")

\* C10: receiveOffer invokes createAnswer only after the setRemoteDescription
\* of the received offer has been fulfilled: the handle's remote description
\* is that offer at the moment of the call.
C10_AnswerAfterRemoteCommit ==
    \A a \in Attempts :
        Has(attempts[a].hist, "createAnswer")
            => /\ Precedes(attempts[a].hist, "setRemoteDescription.ok", "createAnswer")
               /\ attempts[a].remoteAtCreate.type = "offer"
               /\ attempts[a].remoteAtCreate.sdp = attempts[a].remote.sdp

\* C10 witness: a receiveOffer attempt has invoked createAnswer.
C10_Witness ==
    \E a \in Attempts :
        /\ attempts[a].op = "receiveOffer"
        /\ Has(attempts[a].hist, "createAnswer")
        /\ attempts[a].pc = "awaitCreate"

\* C11: a createOffer attempt with UseMic=false whose offer creation and local
\* commit succeed produces one "connecting" notification, one
\* onSendWebRTCOffer emission, no "setup failed" notification, and ends with
\* its offer committed as local description.
C11_OfferScenario ==
    \A a \in Attempts :
        ( /\ attempts[a].op = "createOffer"
          /\ attempts[a].micFlag = "off"
          /\ Has(attempts[a].hist, "createOffer.ok")
          /\ Has(attempts[a].hist, "setLocalDescription.ok") )
            => /\ Count(attempts[a].hist, "connecting") = 1
               /\ Count(attempts[a].hist, "offer") = 1
               /\ Count(attempts[a].hist, "setupFailure") = 0
               /\ attempts[a].pc = "done"
               /\ attempts[a].committed.type = "offer"
               /\ attempts[a].committed = attempts[a].sent

\* C11 witness: such an attempt has ended, the handle holding its offer.
C11_Witness ==
    \E a \in Attempts :
        /\ attempts[a].op = "createOffer"
        /\ attempts[a].micFlag = "off"
        /\ Has(attempts[a].hist, "setLocalDescription.ok")
        /\ peerConnection # NULL
        /\ peerConnection.localDescription = attempts[a].sent

\* C12: a receiveOffer attempt in which every handle operation succeeds emits
\* one answer, after the answer's setLocalDescription was fulfilled and after
\* the remote description was committed; the payload is the handle's
\* committed local description.
C12_AnswerScenario ==
    \A a \in Attempts :
        ( /\ attempts[a].op = "receiveOffer"
          /\ Has(attempts[a].hist, "setLocalDescription.ok") )
            => /\ Count(attempts[a].hist, "answer") = 1
               /\ Precedes(attempts[a].hist, "setLocalDescription.ok", "answer")
               /\ Precedes(attempts[a].hist, "setRemoteDescription.ok", "answer")
               /\ attempts[a].sent = attempts[a].committed
               /\ attempts[a].committed.type = "answer"

\* C12 witness: a receiveOffer attempt has emitted its answer.
C12_Witness ==
    \E a \in Attempts :
        /\ attempts[a].op = "receiveOffer"
        /\ Has(attempts[a].hist, "answer")
        /\ attempts[a].sent.type = "answer"
        /\ attempts[a].pc = "done"

\* C13: when the handle rejects offer creation, the attempt produces one
\* "setup failed" notification, no "connecting" notification, no offer, no
\* local description commit, and invokes offer creation once only.
C13_OfferCreationRejected ==
    \A a \in Attempts :
        Has(attempts[a].hist, "createOffer.fail")
            => /\ Count(attempts[a].hist, "setupFailure") = 1
               /\ Count(attempts[a].hist, "connecting") = 0
               /\ Count(attempts[a].hist, "offer") = 0
               /\ Count(attempts[a].hist, "setLocalDescription") = 0
               /\ attempts[a].committed = NoDescription
               /\ Count(attempts[a].hist, "createOffer") = 1
               /\ attempts[a].pc = "done"

\* C13 witness: the handle has rejected an offer creation.
C13_Witness ==
    \E a \in Attempts :
        /\ Has(attempts[a].hist, "createOffer.fail")
        /\ Has(attempts[a].hist, "setupFailure")

\* C14: when the handle rejects answer creation, the failure is logged and
\* nothing else: no answer, no "connecting" or "setup failed" notification, no
\* local description commit, and answer creation is invoked once only.
C14_AnswerCreationRejected ==
    \A a \in Attempts :
        Has(attempts[a].hist, "createAnswer.fail")
            => /\ Count(attempts[a].hist, "logError") = 1
               /\ Count(attempts[a].hist, "answer") = 0
               /\ Count(attempts[a].hist, "connecting") = 0
               /\ Count(attempts[a].hist, "setupFailure") = 0
               /\ Count(attempts[a].hist, "setLocalDescription") = 0
               /\ attempts[a].committed = NoDescription
               /\ Count(attempts[a].hist, "createAnswer") = 1
               /\ attempts[a].pc = "done"

\* C14 witness: the handle has rejected an answer creation.
C14_Witness ==
    \E a \in Attempts :
        /\ Has(attempts[a].hist, "createAnswer.fail")
        /\ Has(attempts[a].hist, "logError")

\* C15: a handleOnIce call with ForceTURN enabled and a candidate lacking
\* "relay" leaves the handle (its identity, candidate list, transceivers and
\* both descriptions) unchanged, emits no outbound event, and writes exactly
\* one informational (Logger.Info) log entry.
C15_DroppedCandidateChangesNothing ==
    [][ ( /\ Len(iceCalls') = Len(iceCalls) + 1
          /\ iceCalls'[Len(iceCalls')].forceTURN
          /\ ~Contains(iceCalls'[Len(iceCalls')].candidate, Relay) )
            => /\ peerConnection' = peerConnection
               /\ attempts' = attempts
               /\ mungeLog' = mungeLog
               /\ videoStats' = videoStats
               /\ thrown' = thrown
               /\ Count(iceCalls'[Len(iceCalls')].logged, "Info") = 1
               /\ ~iceCalls'[Len(iceCalls')].passed ]_vars

\* C15 witness: a candidate without the marker was dropped under ForceTURN on
\* a negotiated handle, whose candidate list is still empty.
C15_Witness ==
    /\ peerConnection # NULL
    /\ peerConnection.localDescription # NoDescription
    /\ peerConnection.transceivers # <<>>
    /\ peerConnection.iceCandidates = <<>>
    /\ Len(iceCalls) = 1
    /\ iceCalls[1].forceTURN
    /\ ~Contains(iceCalls[1].candidate, Relay)
    /\ Count(iceCalls[1].logged, "Info") = 1

\* C16: no step of createOffer, receiveOffer, receiveAnswer, handleOnIce,
\* generateStats, of a settlement or of a handle event replaces the handle: a
\* handle that stays keeps its identity, only a close() call sets the field to
\* null, and a null field stays null. While the owner may still call, close()
\* is enabled and leaves the field null.
C16_HandleAssignedOnlyByClose ==
    [][ /\ (peerConnection # NULL /\ peerConnection' # NULL)
            => peerConnection'.id = peerConnection.id
        /\ (peerConnection # NULL /\ peerConnection' = NULL)
            => closeCalls'.api = closeCalls.api + 1
        /\ peerConnection = NULL => peerConnection' = NULL
        /\ (Calls < MaxCalls /\ closeCalls.api < MaxClose)
            => ENABLED (close /\ peerConnection' = NULL) ]_vars

\* C16 witness: a handle that negotiated was closed, and a later call found
\* the field null.
C16_Witness ==
    /\ peerConnection = NULL
    /\ closeCalls.handle = 1
    /\ \E a \in Attempts : Has(attempts[a].hist, "createOffer")
    /\ \E i \in 1..Len(statsCalls) : statsCalls[i].pc = "threw"

\* the events an attempt surfaces to the owner
Outbound == {"offer", "answer", "connecting", "setupFailure"}

\* C17: once close() has nulled the handle, no step of a negotiation that was
\* in flight (or that starts afterwards) emits an offer or an answer or
\* surfaces a "connecting" or "setup failed" notification.
C17_NothingSurfacesAfterClose ==
    [][ peerConnection = NULL
            => \A a \in Attempts, e \in Outbound :
                   Count(attempts'[a].hist, e) = Count(attempts[a].hist, e) ]_vars

\* C17 witness: close() came while a capture request was pending; the request
\* settled afterwards and the attempt ended in a TypeError on the null handle.
C17_Witness ==
    /\ peerConnection = NULL
    /\ closeCalls.handle = 1
    /\ \E a \in Attempts :
           /\ Has(attempts[a].hist, "getUserMedia")
           /\ Has(attempts[a].hist, "TypeError")
           /\ attempts[a].pc = "done"

\* C18: UseMic, ForceMonoAudio and ForceTURN are read when a negotiation
\* attempt starts: the microphone flag and the mono flag the attempt uses,
\* and the transport policy of the handle it negotiates on, are those of the
\* configuration at the moment of the call.
C18_FlagsReadAtAttemptStart ==
    \A a \in Attempts :
        attempts[a].op # "none"
            => /\ attempts[a].micFlag # "unread"
                   => (attempts[a].micFlag = "on") = attempts[a].startCfg["UseMic"]
               /\ attempts[a].monoFlag # "unread"
                   => (attempts[a].monoFlag = "on")
                          = attempts[a].startCfg["ForceMonoAudio"]
               /\ (peerConnection # NULL /\ ~Has(attempts[a].hist, "TypeError"))
                   => (peerConnection.iceTransportPolicy = "relay")
                          = attempts[a].startCfg["ForceTURN"]

\* C19: every aggregated-stats event delivered to the delegate invokes the
\* base handler, and forwards the stats to the signalling server once if
\* sendStatsToServer is enabled at that moment and not at all otherwise.
C19_ForwardingFollowsFlag ==
    [][ Len(videoStats') = Len(videoStats) + 1
            => /\ videoStats'[Len(videoStats')].base = 1
               /\ videoStats'[Len(videoStats')].forwarded
                      = IF sendToServer THEN 1 ELSE 0 ]_vars

\* C19 witness: one event was forwarded and, the flag having changed, one was
\* not.
C19_Witness ==
    \E i, j \in 1..Len(videoStats) :
        /\ videoStats[i].forwarded = 1 /\ videoStats[i].base = 1
        /\ videoStats[j].forwarded = 0 /\ videoStats[j].base = 1

\* the generateStats calls whose report has arrived
Delivered == {i \in 1..Len(statsCalls) : statsCalls[i].pc = "delivered"}

\* C20: every report that arrives is first reduced by the one aggregator and
\* then emitted in exactly one onVideoStats event carrying that aggregator; a
\* failed or pending request emits nothing; the aggregator holds the reduction
\* of the latest report and nothing else is kept between calls.
C20_OneEventPerReport ==
    /\ Len(videoStats) = Cardinality(Delivered)
    /\ aggregatedStats.reports = Cardinality(Delivered)
    /\ \A i \in 1..Len(statsCalls) :
           /\ statsCalls[i].pc = "delivered"
                => /\ statsCalls[i].emitted = 1
                   /\ statsCalls[i].seen.entries = Len(statsCalls[i].report)
                   /\ statsCalls[i].seen.bitrate = Sum(statsCalls[i].report)
                   /\ \E k \in 1..Len(videoStats) :
                          videoStats[k].videoStats = statsCalls[i].seen
           /\ statsCalls[i].pc # "delivered" => statsCalls[i].emitted = 0
    /\ Len(videoStats) > 0 => videoStats[Len(videoStats)].videoStats = aggregatedStats

\* C20 witness: of two polls one failed and the other delivered a report of
\* two entries in one event.
C20_Witness ==
    /\ Len(videoStats) = 1
    /\ aggregatedStats.entries = 2
    /\ \E i, j \in 1..Len(statsCalls) :
           statsCalls[i].pc = "failed" /\ statsCalls[j].pc = "delivered"

\* C21: on a controller that has its handle, a handleOnIce call whose
\* candidate is not filtered (ForceTURN disabled, or the candidate contains
\* "relay") appends that candidate to the handle's candidates within the
\* call, once, after those already passed, whether or not a remote
\* description is committed.
C21_CandidatePassedOnArrival ==
    [][ ( /\ Len(iceCalls') = Len(iceCalls) + 1
          /\ peerConnection # NULL
          /\ \/ ~iceCalls'[Len(iceCalls')].forceTURN
             \/ Contains(iceCalls'[Len(iceCalls')].candidate, Relay) )
            => /\ iceCalls'[Len(iceCalls')].passed
               /\ peerConnection' =
                      [peerConnection EXCEPT !.iceCandidates =
                          Append(@, iceCalls'[Len(iceCalls')].candidate)] ]_vars

\* C21 witness: with ForceTURN disabled and no remote description committed,
\* two different candidates were passed, and the handle holds them in the
\* order of the calls.
C21_Witness ==
    /\ peerConnection # NULL
    /\ peerConnection.remoteDescription = NoDescription
    /\ Len(iceCalls) = 2
    /\ ~iceCalls[1].forceTURN /\ ~iceCalls[2].forceTURN
    /\ iceCalls[1].candidate # iceCalls[2].candidate
    /\ peerConnection.iceCandidates = <<iceCalls[1].candidate, iceCalls[2].candidate>>

\* C22: when an attempt requested the microphone and the capture succeeded,
\* setup ends with exactly one audio line, send-receive and bound to the
\* captured track: a new one if the handle had no transceivers when setup
\* started, the existing one (and no additional one) otherwise.
C22_CaptureSuccessOneSendRecvAudio ==
    \A a \in Attempts :
        ( /\ Has(attempts[a].hist, "capture.stream")
          /\ InvokedCreate(a) )
            => /\ CountLines(attempts[a].atCreate, "audio", {"sendrecv"}) = 1
               /\ CountLines(attempts[a].atCreate, "audio", {"recvonly", "sendrecv"}) = 1
               /\ \A i \in 1..Len(attempts[a].atCreate) :
                      attempts[a].atCreate[i].kind = "audio"
                          => attempts[a].atCreate[i].track
               /\ attempts[a].hasTransceivers
                      => CountLines(attempts[a].atCreate, "audio", {"recvonly", "sendrecv"})
                           = CountLines(attempts[a].atSetup, "audio", {"recvonly", "sendrecv"})

\* the capture request of the attempt has settled before its
\* setLocalDescription call
CaptureSettledBeforeCommit(h) ==
    \E i, j \in 1..Len(h) :
        /\ i < j
        /\ h[i] \in {"capture.stream", "capture.null", "capture.reject"}
        /\ h[j] = "setLocalDescription"

\* C23: an attempt calls setLocalDescription only after its transceiver setup
\* has settled (the video transceiver is added, a capture request has
\* settled), and mungeSDP is applied once, to the created offer/answer, after
\* its creation and before that call, which is given the rewrite's output.
C23_RewriteOnceBetweenCreateAndCommit ==
    \A a \in Attempts :
        Has(attempts[a].hist, "setLocalDescription")
            => /\ Count(attempts[a].hist, "mungeSDP") = 1
               /\ Count(attempts[a].hist, "setLocalDescription") = 1
               /\ Precedes(attempts[a].hist, "mungeSDP", "setLocalDescription")
               /\ Precedes(attempts[a].hist,
                           IF attempts[a].op = "createOffer" THEN "createOffer.ok"
                           ELSE "createAnswer.ok",
                           "mungeSDP")
               /\ attempts[a].desc.sdp =
                      mungeSDP(attempts[a].created, attempts[a].useMic,
                               attempts[a].monoFlag = "on")
               /\ Len(attempts[a].atCreate) > Len(attempts[a].atSetup)
               /\ Has(attempts[a].hist, "getUserMedia")
                      => CaptureSettledBeforeCommit(attempts[a].hist)

\* C23 witness: a receiveOffer attempt and a createOffer attempt, one of them
\* with a capture request, have both reached their setLocalDescription call.
C23_Witness ==
    \E a, b \in Attempts :
        /\ attempts[a].op = "createOffer" /\ attempts[b].op = "receiveOffer"
        /\ Has(attempts[a].hist, "setLocalDescription")
        /\ Has(attempts[b].hist, "setLocalDescription")
        /\ Has(attempts[a].hist, "getUserMedia") \/ Has(attempts[b].hist, "getUserMedia")

\* C24: after any sequence of completed, non-overlapping createOffer /
\* receiveOffer calls on one controller the handle has one video transceiver
\* and one audio transceiver.
C24_TransceiversCreatedOnce ==
    ( /\ peerConnection # NULL
      /\ nAttempts >= 1
      /\ \A a \in 1..nAttempts : Has(attempts[a].hist, "setLocalDescription.ok") )
        => /\ CountLines(peerConnection.transceivers, "video", {"recvonly", "sendrecv"}) = 1
           /\ CountLines(peerConnection.transceivers, "audio", {"recvonly", "sendrecv"}) = 1

\* the attempt has started its transceiver setup and its asynchronous tail is
\* pending
SetupStarted(a) ==
    attempts[a].pc \in {"awaitGUM", "setupSettled", "awaitCreate", "awaitSLD"}

\* C25: whatever the interleaving of two createOffer / receiveOffer calls, the
\* later call has not started transceiver setup or offer/answer creation
\* while the earlier call is still pending: no two negotiations are in flight.
C25_SingleFlight ==
    \A a, b \in Attempts :
        (a < b /\ attempts[a].pc \notin {"idle", "done"}) => ~SetupStarted(b)

\* C26: a receiveAnswer call and the settlement of its setRemoteDescription
\* emit no outbound event and change nothing of the handle but its remote
\* description, which becomes the given description when the handle fulfils
\* the commit.
C26_ReceiveAnswerOnlyCommitsRemote ==
    [][ answerCalls' # answerCalls
            => /\ attempts' = attempts
               /\ videoStats' = videoStats
               /\ mungeLog' = mungeLog
               /\ peerConnection = NULL => peerConnection' = NULL
               /\ peerConnection # NULL
                    => /\ peerConnection' # NULL
                       /\ peerConnection'.id = peerConnection.id
                       /\ peerConnection'.transceivers = peerConnection.transceivers
                       /\ peerConnection'.localDescription = peerConnection.localDescription
                       /\ peerConnection'.iceCandidates = peerConnection.iceCandidates
                       /\ \A i \in 1..Len(answerCalls) :
                              ( answerCalls[i].pc = "pending"
                                /\ answerCalls'[i].pc = "committed" )
                                  => peerConnection'.remoteDescription = answerCalls[i].sdp
                       /\ (\A i \in 1..Len(answerCalls') :
                               answerCalls'[i].pc # "committed")
                            => peerConnection'.remoteDescription
                                   = peerConnection.remoteDescription ]_vars

\* C26 witness: the answer to a committed local offer is the handle's remote
\* description.
C26_Witness ==
    /\ peerConnection # NULL
    /\ peerConnection.localDescription.type = "offer"
    /\ peerConnection.remoteDescription.type = "answer"
    /\ Len(answerCalls) = 1
    /\ answerCalls[1].pc = "committed"

\* the attempt was issued when the field was null
IssuedOnNull(att) == att.hist # <<>> /\ att.hist[1] = "TypeError"

\* C27: with the field null after close(), a newly issued createOffer,
\* receiveOffer, receiveAnswer, handleOnIce or generateStats call fails on the
\* null field: it emits no offer, answer, notification or stats event, passes
\* no candidate, requests nothing of any handle, and the field stays null.
C27_CallsAfterCloseDoNothing ==
    [][ /\ \A a \in Attempts :
               IssuedOnNull(attempts'[a])
                   => attempts'[a].hist = <<"TypeError">> /\ attempts'[a].pc = "done"
        /\ peerConnection = NULL
             => /\ peerConnection' = NULL
                /\ nAttempts' # nAttempts => IssuedOnNull(attempts'[nAttempts'])
                /\ Len(iceCalls') # Len(iceCalls) => ~iceCalls'[Len(iceCalls')].passed
                /\ Len(answerCalls') # Len(answerCalls)
                     => answerCalls'[Len(answerCalls')].pc = "threw"
                /\ Len(statsCalls') # Len(statsCalls)
                     => /\ statsCalls'[Len(statsCalls')].pc = "threw"
                        /\ videoStats' = videoStats
                        /\ aggregatedStats' = aggregatedStats
        /\ \A i \in 1..Len(statsCalls) :
               statsCalls[i].pc = "threw" => statsCalls'[i] = statsCalls[i]
        /\ \A i \in 1..Len(answerCalls) :
               answerCalls[i].pc = "threw" => answerCalls'[i] = answerCalls[i] ]_vars

\* C27 witness: after close() a createOffer call and a handleOnIce call with
\* an unfiltered candidate both failed on the null field.
C27_Witness ==
    /\ peerConnection = NULL
    /\ closeCalls.handle = 1
    /\ \E a \in Attempts :
           attempts[a].op = "createOffer" /\ attempts[a].hist = <<"TypeError">>
    /\ Len(iceCalls) = 1
    /\ ~iceCalls[1].forceTURN
    /\ ~iceCalls[1].passed
    /\ thrown.handleOnIce = 1

\* C28: when the handle rejects the setRemoteDescription of a receiveOffer
\* attempt, the attempt ends there: the rejection step changes nothing of the
\* handle, and the attempt has read no flag, requested no capture, created no
\* answer, committed no local description and emitted nothing.
C28_RemoteCommitRejectedStops ==
    [][ \A a \in Attempts :
            Has(attempts'[a].hist, "setRemoteDescription.fail")
                => /\ attempts'[a].hist
                          = <<"setRemoteDescription", "setRemoteDescription.fail">>
                   /\ attempts'[a].pc = "done"
                   /\ attempts'[a].micFlag = "unread"
                   /\ attempts'[a].atCreate = <<>>
                   /\ attempts'[a].desc = NoDescription
                   /\ attempts'[a].sent = NoDescription
                   /\ attempts'[a].committed = NoDescription
                   /\ attempts'[a] # attempts[a]
                        => /\ peerConnection' = peerConnection
                           /\ mungeLog' = mungeLog ]_vars

\* C28 witness: the first receiveOffer was rejected at the remote commit, the
\* handle being left without transceivers or descriptions.
C28_Witness ==
    /\ attempts[1].op = "receiveOffer"
    /\ Has(attempts[1].hist, "setRemoteDescription.fail")
    /\ nAttempts = 1
    /\ peerConnection # NULL
    /\ peerConnection.transceivers = <<>>
    /\ peerConnection.remoteDescription = NoDescription
    /\ peerConnection.localDescription = NoDescription

\* C29: for a non-empty configured URL the builder returns a URL ending in
\* "/ws": the URL itself if it already ends in "/ws", the URL followed by
\* "ws" if it ends in "/", the URL followed by "/ws" otherwise; it puts no
\* "//" before "ws" that the URL did not have, and applied to its own output
\* it returns that output.
C29_UrlEndsWithWs ==
    (builtUrl.called /\ builtUrl.setting # <<>>)
        => LET u == builtUrl.setting
               out == builtUrl.url
               ws == <<"/", "w", "s">>
           IN  /\ EndsWith(out, ws)
               /\ EndsWith(u, ws) => out = u
               /\ (~EndsWith(u, ws) /\ EndsWith(u, <<"/">>)) => out = u \o <<"w", "s">>
               /\ (~EndsWith(u, ws) /\ ~EndsWith(u, <<"/">>)) => out = u \o ws
               /\ EndsWith(out, <<"/", "/", "w", "s">>)
                    => \/ EndsWith(u, <<"/", "/">>)
                       \/ EndsWith(u, <<"/", "/", "w", "s">>)
               /\ buildSignallingServerUrl(out) = out

\* C29 witness: a URL ending in "/" was completed with "ws" alone.
C29_Witness ==
    /\ builtUrl.called
    /\ builtUrl.setting = <<"a", "/">>
    /\ builtUrl.url = <<"a", "/", "w", "s">>

=============================================================================
